---- MODULE Spec2Model ----
(***************************************************************************)
(* Model of src/server.js: the socket.io chat relay.                       *)
(*                                                                         *)
(* Strings are sequences of one-character strings, so that trim() and      *)
(* .length are computed as JavaScript computes them.  A value that is      *)
(* absent (undefined) is the sentinel Absent.                              *)
(*                                                                         *)
(* A JavaScript Set is modelled as a duplicate-free sequence in insertion  *)
(* order (the order forEach visits), a Map as a function on its keys.      *)
(*                                                                         *)
(* Date.now() values (timestamp, joinedAt, the numeric half of a message   *)
(* id) are projected away: the handlers only copy them into payloads.      *)
(***************************************************************************)
EXTENDS Integers, Sequences, FiniteSets, TLC

VARIABLES
    users,           \* Map socket.id -> {username, room}
    rooms,           \* Map room -> Set of socket.id (insertion ordered)
    messageHistory,  \* Map room -> array of messageData
    sids,            \* socket.io adapter: socket.id -> the adapter rooms it is in
    status,          \* per socket id: "new", "active" (connected), "closed"
    outbox,          \* the emits of the last handler run, in call order
    last,            \* the event the last handler run handled
    live,            \* history variable: the connected sockets, in connection order
    sentLog,         \* history variable: room -> valid sends since the room was created
    buried,          \* history variable: rooms that emptied after a valid send
    inbox            \* history variable: per socket, what it was sent of messages

vars == <<users, rooms, messageHistory, sids, status, outbox, last, live, sentLog, buried,
          inbox>>

----------------------------------------------------------------------------
(* Program constants *)

HistoryCap == 100
HistorySlice == 50
MaxMessageLen == 1000
MaxUsernameLen == 50

(* Bounds of the exploration *)

MaxLog == 2        \* Spec: valid sends kept in all live logs together
FreeSends == 2     \* SpecFlood: sends of a room's life open to every member
FloodSends == 102  \* SpecFlood: sends of a room's life open to the flooding socket

----------------------------------------------------------------------------
(* Strings *)

Absent == <<"undefined">>

Rep(ch, n) == [i \in 1..n |-> ch]

IsWs(ch) == ch = " "

SeqRange(s) == {s[i] : i \in 1..Len(s)}

SetMin(S) == CHOOSE x \in S : \A y \in S : x <= y

\* String.prototype.trim: the text without its leading and its trailing run
\* of white space
LeadingWs(s) ==
    CHOOSE k \in 0..Len(s) :
        /\ k = Len(s) \/ ~IsWs(s[k + 1])
        /\ \A j \in 1..k : IsWs(s[j])

TrailingWs(s) ==
    CHOOSE k \in 0..Len(s) :
        /\ k = Len(s) \/ ~IsWs(s[Len(s) - k])
        /\ \A j \in 0..(k - 1) : IsWs(s[Len(s) - j])

Trim(s) == SubSeq(s, LeadingWs(s) + 1, Len(s) - TrailingWs(s))

\* JavaScript falsiness of a value that is a string or undefined
Falsy(v) == v = Absent \/ v = <<>>

General == <<"g", "e", "n", "e", "r", "a", "l">>

----------------------------------------------------------------------------
(* Socket ids.  The server hands out a fresh id per connection attempt; the *)
(* model hands them out in the order of IdOrder.                            *)

IdOrder == << <<"1">>, <<"2">>, <<"3">> >>

ConnIds == SeqRange(IdOrder)

NextId == LET fresh == {i \in 1..Len(IdOrder) : status[IdOrder[i]] = "new"}
          IN  IF fresh = {} THEN Absent ELSE IdOrder[SetMin(fresh)]

----------------------------------------------------------------------------
(* Map and Set helpers *)

MapSet(m, k, v) == [x \in DOMAIN m \cup {k} |-> IF x = k THEN v ELSE m[x]]

MapDelete(m, k) == [x \in DOMAIN m \ {k} |-> m[x]]

SetAdd(s, x) == IF x \in SeqRange(s) THEN s ELSE Append(s, x)

SetDelete(s, x) == SelectSeq(s, LAMBDA y : y # x)

EmptyMap == [x \in {} |-> <<>>]

----------------------------------------------------------------------------
(* io.use: the admission middleware.  err = "" stands for next() without an *)
(* error.                                                                   *)

Admit(username, room) ==
    LET room0 == IF Falsy(room) THEN General ELSE room
    IN  IF Falsy(username) \/ Len(Trim(username)) = 0
        THEN [err |-> "Invalid username", username |-> <<>>, room |-> <<>>]
        ELSE IF Len(username) > MaxUsernameLen
        THEN [err |-> "Username too long", username |-> <<>>, room |-> <<>>]
        ELSE [err |-> "", username |-> Trim(username), room |-> Trim(room0)]

----------------------------------------------------------------------------
(* socket.io delivery.  Every connected socket is in the adapter room named *)
(* by its own id (socket.io joins it on connect) and in the rooms it joined *)
(* with socket.join.                                                        *)

\* io.to(room): the sockets in adapter room `room`
RoomSockets(ad, room) == {c \in ConnIds : room \in ad[c]}

\* io.to(room) where socket.to(room) was meant: the emitting socket included
RoomSocketsAll(ad, room, c) == RoomSockets(ad, room)

\* socket.to(room): the same, without the emitting socket
RoomSocketsExcept(ad, room, c) == RoomSockets(ad, room) \ {c}

Emit(event, to, payload) == [event |-> event, to |-> to, payload |-> payload]

\* a slice taken from the front: history.slice(0, n)
SliceFirst(history, n) ==
    IF Len(history) <= n THEN history ELSE SubSeq(history, 1, n)

\* history.slice(-n)
SliceLast(history, n) ==
    IF Len(history) <= n THEN history
    ELSE SubSeq(history, Len(history) - n + 1, Len(history))

\* the overflow removed with pop() instead of shift()
HistoryPushPop(history, messageData) ==
    LET pushed == Append(history, messageData)
    IN  IF Len(pushed) > HistoryCap THEN SubSeq(pushed, 1, Len(pushed) - 1) ELSE pushed

\* history.push(messageData); if (history.length > 100) history.shift()
HistoryPush(history, messageData) ==
    LET pushed == Append(history, messageData)
    IN  IF Len(pushed) > HistoryCap THEN Tail(pushed) ELSE pushed

\* the userList array broadcastUserList builds
UserList(us, rs, room) ==
    IF room \in DOMAIN rs
    THEN LET present == SelectSeq(rs[room], LAMBDA id : id \in DOMAIN us)
         IN  [i \in 1..Len(present) |-> [username |-> us[present[i]].username]]
    ELSE <<>>

broadcastUserList(us, rs, ad, room) ==
    Emit("user_list", RoomSockets(ad, room), UserList(us, rs, room))

----------------------------------------------------------------------------
(* History variables: what the sockets have done, kept beside the code's   *)
(* state and never read by it.                                             *)

\* the connected sockets whose room is `room`, in connection order
MembersOf(room) == SelectSeq(live, LAMBDA m : m.room = room)

MemberIds(room) == {m.id : m \in SeqRange(MembersOf(room))}

LiveOf(c) == CHOOSE m \in SeqRange(live) : m.id = c

\* a body the send handler is meant to accept: non-empty after trimming, and
\* at most 1000 characters long
ValidBody(data) ==
    /\ data.present
    /\ ~Falsy(data.message)
    /\ Len(Trim(data.message)) \in 1..MaxMessageLen

Event(op, id, username, room, data, err) ==
    [op |-> op, id |-> id, username |-> username, room |-> room, data |-> data,
     err |-> err]

NoData == [present |-> FALSE, message |-> Absent]

\* nothing received: sendsBefore counts the valid sends of the room's life
\* that came before the socket's join, box holds the messages it was sent
NoBox == [sendsBefore |-> 0, box |-> <<>>]

----------------------------------------------------------------------------
(* State after construction *)

Init ==
    /\ users = EmptyMap
    /\ rooms = EmptyMap
    /\ messageHistory = EmptyMap
    /\ sids = [c \in ConnIds |-> {}]
    /\ status = [c \in ConnIds |-> "new"]
    /\ outbox = <<>>
    /\ last = Event("init", Absent, Absent, Absent, NoData, "")
    /\ live = <<>>
    /\ sentLog = EmptyMap
    /\ buried = {}
    /\ inbox = [c \in ConnIds |-> NoBox]

----------------------------------------------------------------------------
(* A connection attempt: the middleware, then io.on('connection')          *)

\* the error branches without their return: next() is reached all the same
AdmittedAlways(a) == TRUE

\* the middleware ended in next() and not in return next(new Error(...))
Admitted(a) == a.err = ""

\* the socket is added to the member set only when it creates the room
JoinRoomFreshOnly(rs, mh, room, c) ==
    IF room \notin DOMAIN rs
    THEN [rooms |-> MapSet(rs, room, <<c>>), messageHistory |-> MapSet(mh, room, <<>>)]
    ELSE [rooms |-> rs, messageHistory |-> mh]

\* a fresh room gets its member set and no history ring
JoinRoomNoRing(rs, mh, room, c) ==
    LET rs1 == IF room \notin DOMAIN rs THEN MapSet(rs, room, <<>>) ELSE rs
    IN  [rooms |-> MapSet(rs1, room, SetAdd(rs1[room], c)), messageHistory |-> mh]

\* "Initialize room if needed" and the add: the two maps afterwards
JoinRoom(rs, mh, room, c) ==
    LET fresh == room \notin DOMAIN rs
        rs1 == IF fresh THEN MapSet(rs, room, <<>>) ELSE rs
        mh1 == IF fresh THEN MapSet(mh, room, <<>>) ELSE mh
    IN  [rooms |-> MapSet(rs1, room, SetAdd(rs1[room], c)), messageHistory |-> mh1]

\* the history read under the default room's key
JoinHistoryGeneral(mh, room) ==
    SliceLast(IF General \in DOMAIN mh THEN mh[General] ELSE <<>>, HistorySlice)

\* the history the joiner is sent: (messageHistory.get(room) || []).slice(-50)
JoinHistory(mh, room) ==
    SliceLast(IF room \in DOMAIN mh THEN mh[room] ELSE <<>>, HistorySlice)

Connection(c, username, room) ==
    /\ status[c] = "new"
    /\ LET a == Admit(username, room)
       IN  /\ last' = Event(IF a.err = "" THEN "connection" ELSE "connect_error",
                            c, username, room, NoData, a.err)
           /\ IF ~Admitted(a)
              THEN /\ outbox' = <<>>
                   /\ UNCHANGED <<users, rooms, messageHistory, sids, status,
                                  live, sentLog, buried>>
              ELSE LET us1 == MapSet(users, c, [username |-> a.username, room |-> a.room])
                       ad1 == [sids EXCEPT ![c] = {c, a.room}]
                       j == JoinRoom(rooms, messageHistory, a.room, c)
                   IN  /\ users' = us1
                       /\ sids' = ad1
                       /\ rooms' = j.rooms
                       /\ messageHistory' = j.messageHistory
                       /\ status' = [status EXCEPT ![c] = "active"]
                       /\ outbox' =
                            << Emit("message_history", {c},
                                    JoinHistory(j.messageHistory, a.room)),
                               Emit("user_joined", RoomSocketsExcept(ad1, a.room, c),
                                    [username |-> a.username,
                                     userCount |-> Len(j.rooms[a.room])]),
                               broadcastUserList(us1, j.rooms, ad1, a.room) >>
                       /\ live' = Append(live, [id |-> c, username |-> a.username,
                                                room |-> a.room])
                       /\ sentLog' = IF MemberIds(a.room) = {}
                                     THEN MapSet(sentLog, a.room, <<>>) ELSE sentLog
                       /\ UNCHANGED buried

----------------------------------------------------------------------------
(* socket.on('send_message')                                               *)

\* String(data.message || '') without the trim()
MessageTextNoTrim(data) == IF Falsy(data.message) THEN <<>> ELSE data.message

\* String(data.message || '').trim()
MessageText(data) == Trim(IF Falsy(data.message) THEN <<>> ELSE data.message)

\* the limit off by one
TooLongOffByOne(message) == Len(message) > MaxMessageLen + 1

\* message.length > 1000
TooLong(message) == Len(message) > MaxMessageLen

\* the catch block answering the whole room
SendFailedToRoom(c) ==
    <<Emit("error", RoomSockets(sids, users[c].room),
           [message |-> "Failed to send message"])>>

\* catch (error): socket.emit('error', { message: 'Failed to send message' })
SendFailed(c) == <<Emit("error", {c}, [message |-> "Failed to send message"])>>

MessageData(c, text) ==
    [id |-> c, username |-> users[c].username, message |-> text,
     room |-> users[c].room]

SendMessage(c, data) ==
    /\ status[c] = "active"
    /\ last' = Event("send_message", c, users[c].username, users[c].room, data, "")
    /\ UNCHANGED <<users, rooms, sids, status, live, buried>>
    /\ IF ~data.present
       THEN \* data.message throws; the catch block answers the sender
            /\ outbox' = SendFailed(c)
            /\ UNCHANGED <<messageHistory, sentLog>>
       ELSE LET message == MessageText(data)
                room == users[c].room
            IN  IF Len(message) = 0
                THEN /\ outbox' = <<>>
                     /\ UNCHANGED <<messageHistory, sentLog>>
                ELSE IF TooLong(message)
                THEN /\ outbox' = <<Emit("error", {c}, [message |-> "Message too long"])>>
                     /\ UNCHANGED <<messageHistory, sentLog>>
                ELSE IF room \notin DOMAIN messageHistory
                THEN \* history is undefined: push throws, caught
                     /\ outbox' = SendFailed(c)
                     /\ UNCHANGED <<messageHistory, sentLog>>
                ELSE /\ messageHistory' =
                          MapSet(messageHistory, room,
                                 HistoryPush(messageHistory[room], MessageData(c, message)))
                     /\ outbox' = <<Emit("new_message", RoomSockets(sids, room),
                                         MessageData(c, message))>>
                     /\ sentLog' =
                          LET m == LiveOf(c)
                          IN  MapSet(sentLog, m.room,
                                     Append(sentLog[m.room],
                                            [id |-> c, username |-> m.username,
                                             message |-> Trim(data.message),
                                             room |-> m.room]))

----------------------------------------------------------------------------
(* socket.on('typing'), socket.on('stop_typing')                           *)

Typing(c) ==
    /\ status[c] = "active"
    /\ outbox' = <<Emit("user_typing", RoomSocketsExcept(sids, users[c].room, c),
                        [username |-> users[c].username])>>
    /\ last' = Event("typing", c, users[c].username, users[c].room, NoData, "")
    /\ UNCHANGED <<users, rooms, messageHistory, sids, status, live, sentLog, buried>>

StopTyping(c) ==
    /\ status[c] = "active"
    /\ outbox' = <<Emit("user_stop_typing", RoomSocketsExcept(sids, users[c].room, c),
                        [username |-> users[c].username])>>
    /\ last' = Event("stop_typing", c, users[c].username, users[c].room, NoData, "")
    /\ UNCHANGED <<users, rooms, messageHistory, sids, status, live, sentLog, buried>>

----------------------------------------------------------------------------
(* socket.on('disconnect').  socket.io has taken the socket out of every   *)
(* adapter room before the handler runs.                                   *)

\* the emptied room's set left in the registry
LeaveRoomKeepEmpty(rs, mh, room, c) ==
    IF room \in DOMAIN rs
    THEN LET left == SetDelete(rs[room], c)
         IN  IF Len(left) = 0
             THEN [rooms |-> MapSet(rs, room, left), messageHistory |-> MapDelete(mh, room)]
             ELSE [rooms |-> MapSet(rs, room, left), messageHistory |-> mh]
    ELSE [rooms |-> rs, messageHistory |-> mh]

\* no clean-up of an emptied room at all
LeaveRoomNoCleanup(rs, mh, room, c) ==
    IF room \in DOMAIN rs
    THEN [rooms |-> MapSet(rs, room, SetDelete(rs[room], c)), messageHistory |-> mh]
    ELSE [rooms |-> rs, messageHistory |-> mh]

\* "Remove from room": the two maps afterwards
LeaveRoom(rs, mh, room, c) ==
    IF room \in DOMAIN rs
    THEN LET left == SetDelete(rs[room], c)
         IN  IF Len(left) = 0
             THEN [rooms |-> MapDelete(rs, room), messageHistory |-> MapDelete(mh, room)]
             ELSE [rooms |-> MapSet(rs, room, left), messageHistory |-> mh]
    ELSE [rooms |-> rs, messageHistory |-> mh]

\* the record the socket's own fields name, found or not
DisconnectUserFromSocket(us, c, sock) ==
    [found |-> TRUE, username |-> sock.username, room |-> sock.room]

\* const user = users.get(socket.id); if (user) ...
DisconnectUser(us, c, sock) ==
    IF c \in DOMAIN us
    THEN [found |-> TRUE, username |-> us[c].username, room |-> us[c].room]
    ELSE [found |-> FALSE, username |-> Absent, room |-> Absent]

\* the body of the handler, for the socket c with the fields sock, the adapter
\* rooms being ad
HandleDisconnect(c, sock, ad) ==
    /\ LET user == DisconnectUser(users, c, sock)
       IN  IF user.found
           THEN LET room == user.room
                    l == LeaveRoom(rooms, messageHistory, room, c)
                IN  /\ rooms' = l.rooms
                    /\ messageHistory' = l.messageHistory
                    /\ outbox' =
                         << Emit("user_left", RoomSocketsExcept(ad, room, c),
                                 [username |-> user.username,
                                  userCount |-> IF room \in DOMAIN l.rooms
                                                THEN Len(l.rooms[room]) ELSE 0]),
                            broadcastUserList(users, l.rooms, ad, room) >>
           ELSE /\ outbox' = <<>>
                /\ UNCHANGED <<rooms, messageHistory>>
    /\ users' = MapDelete(users, c)

Disconnect(c) ==
    /\ status[c] = "active"
    /\ status' = [status EXCEPT ![c] = "closed"]
    /\ last' = Event("disconnect", c, LiveOf(c).username, LiveOf(c).room, NoData, "")
    /\ live' = SelectSeq(live, LAMBDA m : m.id # c)
    /\ LET r == LiveOf(c).room
           lastOut == MemberIds(r) = {c}
       IN  /\ sentLog' = IF lastOut THEN MapDelete(sentLog, r) ELSE sentLog
           /\ buried' = IF lastOut /\ sentLog[r] # <<>> THEN buried \cup {r} ELSE buried
    /\ LET ad1 == [sids EXCEPT ![c] = {}]
       IN  /\ sids' = ad1
           /\ HandleDisconnect(c, [username |-> users[c].username,
                                   room |-> users[c].room], ad1)

\* the handler run once more for the socket whose disconnect was handled
\* last: its presence record is gone, its fields are as they were
DisconnectAgain(c) ==
    /\ status[c] = "closed"
    /\ last.op \in {"disconnect", "disconnect_again"}
    /\ last.id = c
    /\ last' = Event("disconnect_again", c, last.username, last.room, NoData, "")
    /\ UNCHANGED <<sids, status, live, sentLog, buried>>
    /\ HandleDisconnect(c, [username |-> last.username, room |-> last.room], sids)

----------------------------------------------------------------------------
(* The diagnostics endpoints (their timestamp and status fields left out)  *)

\* GET /health
Health == [connections |-> Cardinality(DOMAIN users), rooms |-> Cardinality(DOMAIN rooms)]

\* GET /stats
Stats ==
    [totalUsers |-> Cardinality(DOMAIN users),
     totalRooms |-> Cardinality(DOMAIN rooms),
     roomDetails |-> {[room |-> r, users |-> Len(rooms[r])] : r \in DOMAIN rooms}]

----------------------------------------------------------------------------
(* Inputs *)

Al == <<"a", "l">>
BoPadded == <<" ", "b", "o", " ">>
Blank == <<" ", " ">>
DevPadded == <<" ", "d", "e", "v">>

Msg(m) == [present |-> TRUE, message |-> m]

HiPadded == <<" ", "h", "i", " ">>
Yo == <<"y", "o">>

\* the handshake usernames explored: a blank one, and one name per socket id
\* (two sockets share a name, one name needs trimming)
UsernameInputs(c) == {Blank} \cup (IF c = IdOrder[2] THEN {BoPadded} ELSE {Al})

\* the handshake room strings explored: absent, a name, and the id of the
\* first socket while it is connected
RoomInputs(c) ==
    {Absent, DevPadded} \cup {d \in {IdOrder[1]} : d # c /\ status[d] = "active"}

DataInputs == {NoData, Msg(Absent), Msg(Blank), Msg(HiPadded), Msg(Yo)}

RECURSIVE SumLen(_, _)
SumLen(log, ks) ==
    IF ks = {} THEN 0
    ELSE LET k == CHOOSE x \in ks : TRUE
         IN  Len(log[k]) + SumLen(log, ks \ {k})

\* a valid send is explored while the live logs hold fewer than MaxLog
SendBudget(data) == SumLen(sentLog, DOMAIN sentLog) < MaxLog \/ ~ValidBody(data)

----------------------------------------------------------------------------
(* The server: one handler run per step *)

Next ==
    \/ \E c \in ConnIds :
         \E u \in UsernameInputs(c), r \in RoomInputs(c) :
            c = NextId /\ Connection(c, u, r) /\ UNCHANGED inbox
    \/ \E c \in ConnIds, d \in DataInputs : SendBudget(d) /\ SendMessage(c, d) /\ UNCHANGED inbox
    \/ \E c \in ConnIds : Typing(c) /\ UNCHANGED inbox
    \/ \E c \in ConnIds : StopTyping(c) /\ UNCHANGED inbox
    \/ \E c \in ConnIds : Disconnect(c) /\ UNCHANGED inbox

Spec == Init /\ [][Next]_vars

----------------------------------------------------------------------------
(* One room under a long run of sends: the sockets all join the default    *)
(* room; the first FreeSends sends of the room's life may come from any of *)
(* them, the later ones from the first socket.                             *)

FloodIds == ConnIds

FloodBody(c) == IF c = IdOrder[1] THEN Msg(HiPadded) ELSE Msg(Yo)

FloodBudget(c) ==
    /\ status[c] = "active"
    /\ LET n == Len(sentLog[LiveOf(c).room])
       IN  n < FreeSends \/ (c = IdOrder[1] /\ n < FloodSends)

NextFlood ==
    \/ \E c \in FloodIds :
         \E u \in UsernameInputs(c) : c = NextId /\ Connection(c, u, Absent) /\ UNCHANGED inbox
    \/ \E c \in FloodIds : FloodBudget(c) /\ SendMessage(c, FloodBody(c)) /\ UNCHANGED inbox
    \/ \E c \in FloodIds : Disconnect(c) /\ UNCHANGED inbox

SpecFlood == Init /\ [][NextFlood]_vars

----------------------------------------------------------------------------
(* The length limits: two sockets, with usernames and message bodies       *)
(* around the limits of 50 and 1000 characters.                            *)

LimitIds == {IdOrder[1], IdOrder[2]}

\* the first socket tries the usernames and rooms around the limits, the
\* second joins the default room under a plain name
LimitUsernames(c) ==
    IF c = IdOrder[1]
    THEN {Absent, <<>>, Blank, Al, BoPadded,
          Rep("x", MaxUsernameLen), Rep("x", MaxUsernameLen + 1),
          <<" ">> \o Rep("x", MaxUsernameLen),
          Rep("x", MaxUsernameLen - 1) \o <<" ", " ">>,
          <<" ">> \o Rep("x", MaxUsernameLen - 1)}
    ELSE {Al}

LimitRooms(c) == IF c = IdOrder[1] THEN {Absent, <<>>, Blank, DevPadded} ELSE {Absent}

LimitData ==
    {Msg(HiPadded), Msg(Rep("m", MaxMessageLen)), Msg(Rep("m", MaxMessageLen + 1)),
     Msg(Rep("m", MaxMessageLen) \o <<" ">>)}

\* a valid send is explored while no live log holds a message
LimitBudget(data) == SumLen(sentLog, DOMAIN sentLog) = 0 \/ ~ValidBody(data)

NextLimits ==
    \/ \E c \in LimitIds :
         \E u \in LimitUsernames(c), r \in LimitRooms(c) :
            c = NextId /\ Connection(c, u, r) /\ UNCHANGED inbox
    \/ \E c \in LimitIds, d \in LimitData : LimitBudget(d) /\ SendMessage(c, d) /\ UNCHANGED inbox
    \/ \E c \in LimitIds : Disconnect(c) /\ UNCHANGED inbox

SpecLimits == Init /\ [][NextLimits]_vars

----------------------------------------------------------------------------
(* The disconnect handler run again for a socket that has left             *)

NextReplay ==
    \/ \E c \in ConnIds :
         \E u \in UsernameInputs(c), r \in RoomInputs(c) :
            c = NextId /\ Connection(c, u, r) /\ UNCHANGED inbox
    \/ \E c \in ConnIds : LimitBudget(Msg(Yo)) /\ SendMessage(c, Msg(Yo)) /\ UNCHANGED inbox
    \/ \E c \in ConnIds : Disconnect(c) /\ UNCHANGED inbox
    \/ \E c \in ConnIds : DisconnectAgain(c) /\ UNCHANGED inbox

SpecReplay == Init /\ [][NextReplay]_vars

----------------------------------------------------------------------------
(* What each socket is sent of messages: the joins, valid sends and        *)
(* disconnects of the server, with every socket's message_history and      *)
(* new_message events recorded as they are emitted.                        *)

RECURSIVE Received(_, _)
\* the messages the emits of one handler run bring to socket c, in emit order
Received(c, emits) ==
    IF emits = <<>> THEN <<>>
    ELSE LET e == Head(emits)
             got == IF c \notin e.to THEN <<>>
                    ELSE IF e.event = "message_history"
                    THEN [i \in 1..Len(e.payload) |->
                            [via |-> "message_history", msg |-> e.payload[i]]]
                    ELSE IF e.event = "new_message"
                    THEN <<[via |-> "new_message", msg |-> e.payload]>>
                    ELSE <<>>
         IN  got \o Received(c, Tail(emits))

\* the record of a socket starts at its join and ends at its disconnect
Track ==
    inbox' = [c \in ConnIds |->
                IF status'[c] # "active" THEN NoBox
                ELSE IF last'.op = "connection" /\ last'.id = c
                THEN [sendsBefore |-> Len(sentLog'[users'[c].room]),
                      box |-> Received(c, outbox')]
                ELSE [inbox[c] EXCEPT !.box = @ \o Received(c, outbox')]]

InboxData == {Msg(HiPadded), Msg(Yo)}

NextInbox ==
    \/ \E c \in ConnIds :
         \E u \in UsernameInputs(c), r \in RoomInputs(c) :
            c = NextId /\ Connection(c, u, r) /\ Track
    \/ \E c \in ConnIds, d \in InboxData : SendBudget(d) /\ SendMessage(c, d) /\ Track
    \/ \E c \in ConnIds : Disconnect(c) /\ Track

SpecInbox == Init /\ [][NextInbox]_vars

----------------------------------------------------------------------------
(* Properties *)

\* the last k entries of a sequence
TailOf(log, k) == SubSeq(log, Len(log) - k + 1, Len(log))

AtMost(n, cap) == IF n < cap THEN n ELSE cap

\* the room of the socket the last event was handled for
EventRoom == IF last.op = "connection" THEN LiveOf(last.id).room ELSE last.room

\* C1: a room id is a key of the room registry exactly when a connected
\* socket is a member of it: no entry has an empty member set, every entry's
\* members are connected, and every connected socket is in the entry of its
\* room.
C1_RegistryIffMembers ==
    /\ \A r \in DOMAIN rooms :
          /\ rooms[r] # <<>>
          /\ SeqRange(rooms[r]) \subseteq {m.id : m \in SeqRange(live)}
    /\ \A m \in SeqRange(live) :
          /\ m.room \in DOMAIN rooms
          /\ m.id \in SeqRange(rooms[m.room])

\* a disconnect emptied and removed a room while another room lives on
C1_Witness ==
    /\ last.op = "disconnect"
    /\ last.room \notin DOMAIN rooms
    /\ DOMAIN rooms # {}

\* C2: every history ring holds at most 100 messages and equals the last
\* min(N, 100) valid sends to its room since the room was created, in send
\* order (a send appends at the tail; past 100 the single oldest entry goes).
C2_RingIsLastHundred ==
    \A r \in DOMAIN messageHistory :
        /\ Len(messageHistory[r]) <= 100
        /\ r \in DOMAIN sentLog
        /\ messageHistory[r] = TailOf(sentLog[r], AtMost(Len(sentLog[r]), 100))

\* a send has just pushed a room past 100 valid sends
C2_Witness ==
    /\ last.op = "send_message"
    /\ last.room \in DOMAIN messageHistory
    /\ last.room \in DOMAIN sentLog
    /\ Len(sentLog[last.room]) > 100
    /\ Len(messageHistory[last.room]) = 100

\* C3: a join delivers to the joiner alone, as message_history, the last
\* min(50, L) entries of its room's ring in send order, L being the ring's
\* length at the join, and leaves the ring as it was; after more than 100
\* sends these are the last 50 sends.
C3_JoinHistoryIsLastFifty ==
    [][last'.op = "connection" =>
         LET r == live'[Len(live')].room
             ring == IF r \in DOMAIN messageHistory THEN messageHistory[r] ELSE <<>>
             sent == sentLog'[r]
             h == outbox'[1]
         IN  /\ h.event = "message_history"
             /\ h.to = {last'.id}
             /\ h.payload = TailOf(ring, AtMost(Len(ring), 50))
             /\ r \in DOMAIN messageHistory'
             /\ messageHistory'[r] = ring
             /\ Len(sent) > 100 => h.payload = TailOf(sent, 50)]_vars

\* a socket has just joined a room that has seen more than 100 valid sends
C3_Witness ==
    /\ last.op = "connection"
    /\ Len(sentLog[EventRoom]) > 100
    /\ Len(outbox[1].payload) = 50

\* the user_list entries of a room's connected sockets, in connection order
Roster(r) == [i \in 1..Len(MembersOf(r)) |-> [username |-> MembersOf(r)[i].username]]

\* C4: the user_list broadcast that ends every join and every disconnect
\* lists exactly the room's members of that instant, one entry each in join
\* order, and is delivered to exactly those members.
C4_UserListExact ==
    last.op \in {"connection", "disconnect"} =>
        LET e == outbox[Len(outbox)]
        IN  /\ e.event = "user_list"
            /\ e.payload = Roster(EventRoom)
            /\ e.to = MemberIds(EventRoom)

\* the message a valid send of the last event's socket carries
SentMessage ==
    [id |-> last.id, username |-> LiveOf(last.id).username,
     message |-> Trim(last.data.message), room |-> LiveOf(last.id).room]

\* C5: a valid send is appended to the sender's room's ring and delivered as
\* new_message to exactly the members of that room, the sender included, and
\* to no socket of another room.
C5_SendFanOut ==
    (last.op = "send_message" /\ ValidBody(last.data)) =>
        LET r == LiveOf(last.id).room
        IN  /\ r \in DOMAIN messageHistory
            /\ messageHistory[r] # <<>>
            /\ messageHistory[r][Len(messageHistory[r])] = SentMessage
            /\ outbox = <<Emit("new_message", MemberIds(r), SentMessage)>>

TooLongError(c) == <<Emit("error", {c}, [message |-> "Message too long"])>>

\* a send_message event that carries a string as its body
SentText == last.op = "send_message" /\ last.data.present /\ last.data.message # Absent

\* C6 as stated: a body of more than 1000 characters is answered with
\* 'Message too long' to the sender alone, and with nothing else.
C6_Original ==
    (SentText /\ Len(last.data.message) > 1000) => outbox = TooLongError(last.id)

\* C6: a body of more than 1000 characters after trimming is answered with
\* 'Message too long' to the sender alone; no new_message is delivered and
\* the rings stay as they were.
C6_TooLongAfterTrim ==
    [][(SentText /\ Len(Trim(last.data.message)) > 1000)' =>
          /\ outbox' = TooLongError(last'.id)
          /\ messageHistory' = messageHistory]_vars

\* an over-long body was refused while a second socket shares the room
C6_Witness ==
    /\ SentText
    /\ Len(Trim(last.data.message)) > 1000
    /\ Cardinality(MemberIds(last.room)) = 2
    /\ Len(outbox) = 1
    /\ outbox[1].event = "error"

\* C7: admission follows the stated rules on every input: invalid-username
\* for an absent or blank username, else username-too-long exactly when the
\* trimmed username has more than 50 characters, else the socket is admitted
\* under the trimmed username.
C7_AdmissionRules ==
    last.op \in {"connection", "connect_error"} =>
        LET u == last.username
        IN  IF u = Absent \/ Len(Trim(u)) = 0
            THEN last.op = "connect_error" /\ last.err = "Invalid username"
            ELSE IF Len(Trim(u)) > 50
            THEN last.op = "connect_error" /\ last.err = "Username too long"
            ELSE /\ last.op = "connection"
                 /\ last.id \in DOMAIN users
                 /\ users[last.id].username = Trim(u)

\* C8: a rejected connection attempt leaves the room registry, the history
\* rings and the presence directory as they were and delivers no event.
C8_RejectChangesNothing ==
    [][last'.op = "connect_error" =>
          /\ users' = users
          /\ rooms' = rooms
          /\ messageHistory' = messageHistory
          /\ outbox' = <<>>]_vars

\* an attempt was rejected while a room with history exists
C8_Witness ==
    /\ last.op = "connect_error"
    /\ \E r \in DOMAIN messageHistory : messageHistory[r] # <<>>

\* C9: every message of the message_history a joiner of room R is sent is a
\* valid send made to R by a member of R.
C9_HistoryFromOwnRoom ==
    last.op = "connection" =>
        LET r == EventRoom
            h == outbox[1].payload
        IN  \A i \in 1..Len(h) :
               /\ h[i].room = r
               /\ h[i] \in SeqRange(sentLog[r])

\* a joiner was sent history while another room holds messages of its own
C9_Witness ==
    /\ last.op = "connection"
    /\ outbox[1].payload # <<>>
    /\ \E r \in DOMAIN messageHistory : r # EventRoom /\ messageHistory[r] # <<>>

\* C10: the first socket to join a room after all its members have left is
\* sent an empty message_history, and a later joiner of the room is sent
\* only what was sent since.
C10_NoResurrection ==
    last.op = "connection" =>
        LET r == EventRoom
            h == outbox[1].payload
        IN  /\ MemberIds(r) = {last.id} => h = <<>>
            /\ r \in buried => h = TailOf(sentLog[r], AtMost(Len(sentLog[r]), 50))

\* a socket has just joined, alone, a room that emptied after a valid send
C10_Witness ==
    /\ last.op = "connection"
    /\ EventRoom \in buried
    /\ MemberIds(EventRoom) = {last.id}

\* C11: a successful join enrols the socket in its room and then emits, in
\* this order, message_history to the joiner only, user_joined to every other
\* member of the room and not to the joiner, with a userCount that counts the
\* joiner, and user_list to every member, the joiner included.
C11_JoinOrder ==
    last.op = "connection" =>
        LET r == EventRoom
            c == last.id
        IN  /\ r \in DOMAIN rooms
            /\ c \in SeqRange(rooms[r])
            /\ Len(outbox) = 3
            /\ outbox[1].event = "message_history"
            /\ outbox[1].to = {c}
            /\ outbox[2].event = "user_joined"
            /\ (MemberIds(r) \ {c}) \subseteq outbox[2].to
            /\ c \notin outbox[2].to
            /\ outbox[2].payload = [username |-> LiveOf(c).username,
                                    userCount |-> Cardinality(MemberIds(r))]
            /\ outbox[3].event = "user_list"
            /\ MemberIds(r) \subseteq outbox[3].to

\* a socket has just joined a room that two sockets were in already
C11_Witness ==
    /\ last.op = "connection"
    /\ Cardinality(MemberIds(EventRoom)) = 3

\* C12: after a disconnect the leaver has no presence record and is in no
\* member set; user_left went to exactly the remaining members of its room,
\* with the leaver's username and their number as userCount, and then
\* user_list of the remaining members went to exactly them.
C12_DisconnectFanOut ==
    last.op = "disconnect" =>
        LET r == last.room
        IN  /\ last.id \notin DOMAIN users
            /\ \A q \in DOMAIN rooms : last.id \notin SeqRange(rooms[q])
            /\ outbox = << Emit("user_left", MemberIds(r),
                                [username |-> last.username,
                                 userCount |-> Cardinality(MemberIds(r))]),
                           Emit("user_list", MemberIds(r), Roster(r)) >>

\* a send_message event whose body is absent or blank
EmptyBody(e) ==
    /\ e.op = "send_message"
    /\ e.data.present
    /\ (Falsy(e.data.message) \/ Len(Trim(e.data.message)) = 0)

\* C13: a send_message whose body is empty after trimming delivers no event
\* to any socket, the sender included, and leaves the history rings, the room
\* registry and the presence directory as they were.
C13_EmptyDropped ==
    [][EmptyBody(last') =>
          /\ outbox' = <<>>
          /\ messageHistory' = messageHistory
          /\ rooms' = rooms
          /\ users' = users]_vars

\* a body of blanks was dropped in a room of two sockets that holds a message
C13_Witness ==
    /\ EmptyBody(last)
    /\ last.data.message = Blank
    /\ outbox = <<>>
    /\ Cardinality(MemberIds(last.room)) = 2
    /\ messageHistory[last.room] # <<>>

\* C14: a typing or stop_typing event delivers user_typing or
\* user_stop_typing with the sender's username to exactly the other members
\* of the sender's room.
C14_TypingFanOut ==
    last.op \in {"typing", "stop_typing"} =>
        outbox = << Emit(IF last.op = "typing" THEN "user_typing" ELSE "user_stop_typing",
                         MemberIds(last.room) \ {last.id},
                         [username |-> last.username]) >>

\* C15: between handlers the room registry and the history store have the
\* same keys, every connected socket's room has a ring, and a valid send is
\* never answered with the error of the catch block.
C15_RegistryRingSameKeys ==
    /\ DOMAIN rooms = DOMAIN messageHistory
    /\ \A m \in SeqRange(live) : m.room \in DOMAIN messageHistory
    /\ (last.op = "send_message" /\ ValidBody(last.data)) =>
          /\ Len(outbox) = 1
          /\ outbox[1].event = "new_message"

\* a valid send was delivered in a room that had been deleted and created
\* again, while another room exists
C15_Witness ==
    /\ last.op = "send_message"
    /\ ValidBody(last.data)
    /\ last.room \in buried
    /\ outbox[1].event = "new_message"
    /\ Cardinality(DOMAIN rooms) = 2

\* the events a socket of a room triggers
RoomEvents == {"connection", "send_message", "typing", "stop_typing", "disconnect"}

\* C16: an event handled for a socket of room R leaves the member set and the
\* ring of every other room as they were, creates and deletes no other room,
\* and delivers nothing to a connected socket of another room.
C16_RoomsIndependent ==
    [][last'.op \in RoomEvents =>
         LET r == EventRoom'
         IN  /\ DOMAIN rooms' \ {r} = DOMAIN rooms \ {r}
             /\ DOMAIN messageHistory' \ {r} = DOMAIN messageHistory \ {r}
             /\ \A q \in DOMAIN rooms \ {r} : rooms'[q] = rooms[q]
             /\ \A q \in DOMAIN messageHistory \ {r} :
                   messageHistory'[q] = messageHistory[q]
             /\ \A i \in 1..Len(outbox') :
                   \A m \in SeqRange(live') :
                      m.id \in outbox'[i].to => m.room = r]_vars

\* C17: the disconnect handler run for a socket that has no presence record
\* changes no room, ring or presence record and delivers nothing, so that
\* handling a disconnect twice ends in the state, and with the deliveries, of
\* handling it once.
C17_LeaveIdempotent ==
    [][last'.op = "disconnect_again" =>
          /\ last.id \notin DOMAIN users
          /\ users' = users
          /\ rooms' = rooms
          /\ messageHistory' = messageHistory
          /\ outbox' = <<>>]_vars

\* the handler ran again for a socket whose room lives on with a member and
\* a message
C17_Witness ==
    /\ last.op = "disconnect_again"
    /\ last.room \in DOMAIN rooms
    /\ messageHistory[last.room] # <<>>
    /\ outbox = <<>>

\* a send_message event without a payload: reading data.message throws
NoPayload(e) == e.op = "send_message" /\ ~e.data.present

\* C18: a send_message whose handling throws is answered with an error event
\* to the sender alone; the rings, the room registry and the presence
\* directory stay as they were, the sender stays connected and in its room,
\* and a valid send it makes next is stored and delivered to it.
C18_FailedSendContained ==
    [][/\ NoPayload(last') =>
             /\ Len(outbox') = 1
             /\ outbox'[1].event = "error"
             /\ outbox'[1].to = {last'.id}
             /\ users' = users
             /\ rooms' = rooms
             /\ messageHistory' = messageHistory
             /\ status'[last'.id] = "active"
             /\ \E m \in SeqRange(live') : m.id = last'.id /\ m.room = last'.room
             /\ last'.id \in SeqRange(rooms'[last'.room])
       /\ (NoPayload(last) /\ last'.op = "send_message" /\ last'.id = last.id
              /\ ValidBody(last'.data)) =>
             /\ Len(outbox') = 1
             /\ outbox'[1].event = "new_message"
             /\ last.id \in outbox'[1].to
             /\ messageHistory'[last.room] # messageHistory[last.room]]_vars

\* a send without payload failed in a room of two sockets that holds a
\* message, and the sender may send again
C18_Witness ==
    /\ NoPayload(last)
    /\ outbox = <<Emit("error", {last.id}, [message |-> "Failed to send message"])>>
    /\ Cardinality(MemberIds(last.room)) = 2
    /\ messageHistory[last.room] # <<>>
    /\ SendBudget(Msg(Yo))

RECURSIVE SumUsers(_)
SumUsers(details) ==
    IF details = {} THEN 0
    ELSE LET d == CHOOSE x \in details : TRUE
         IN  d.users + SumUsers(details \ {d})

\* C19: every socket id with a presence record is in the member set of the
\* room its record names and in no other, every id of a member set has a
\* presence record, and the connection count of the diagnostics equals the
\* sum of the per-room member counts.
C19_PresenceMatchesMembership ==
    /\ \A c \in DOMAIN users :
          /\ users[c].room \in DOMAIN rooms
          /\ \A r \in DOMAIN rooms : c \in SeqRange(rooms[r]) <=> r = users[c].room
    /\ \A r \in DOMAIN rooms : SeqRange(rooms[r]) \subseteq DOMAIN users
    /\ Health.connections = SumUsers(Stats.roomDetails)
    /\ Stats.totalUsers = SumUsers(Stats.roomDetails)

\* three sockets have joined, one has left, and the two that stay are in two
\* rooms
C19_Witness ==
    /\ last.op = "disconnect"
    /\ Health.connections = 2
    /\ Health.rooms = 2
    /\ Cardinality(Stats.roomDetails) = 2

\* the messages of a box, without the event that brought them
BoxMessages(box) == [i \in 1..Len(box) |-> box[i].msg]

\* C20: for every connected socket, the messages of its message_history
\* followed by its new_message events are a run of its room's valid sends in
\* send order, without gap or duplicate: the history part holds sends made
\* just before its join and nothing else, the new_message part holds every
\* send made since its join, once each, and nothing else.
C20_GapFreeRun ==
    \A m \in SeqRange(live) :
        LET box == inbox[m.id].box
            before == inbox[m.id].sendsBefore
            log == sentLog[m.room]
            h == Cardinality({i \in 1..Len(box) : box[i].via = "message_history"})
        IN  /\ \A i \in 1..Len(box) : box[i].via = "message_history" <=> i <= h
            /\ h <= before
            /\ before <= Len(log)
            /\ BoxMessages(box) = SubSeq(log, before - h + 1, Len(log))

====
